---- MODULE Spec2Model ----
(***************************************************************************)
(* A model of sot (snapshot on top): the metadata index (sqlite tables     *)
(* volumes, snapshots, volumes_head), the Volume / Snapshot entities of    *)
(* src/src/sot/btrfs.py, the path codec of src/src/sot/utils.py and the    *)
(* on-disk tree the btrfs primitives act on.                               *)
(*                                                                         *)
(* Strings are sequences of one-character strings.  One action is one      *)
(* call of a library method on freshly constructed objects, as one command *)
(* of the command line tool does (one process per command).  A physical    *)
(* primitive may fail for reasons of its own (EPERM, EBUSY, ...): every    *)
(* action takes a fail point f naming the primitive that raises, or "none".*)
(***************************************************************************)
EXTENDS Naturals, Sequences, FiniteSets, TLC

\* ------------------------------------------------------------------ bounds
MaxLen == 3          \* longest string the codec specification draws
MaxId == 3           \* largest row id the model lets sqlite hand out

NULL == 0            \* SQL NULL / Python None for an id column

Alphabet == {"%", "@", "/", "t"}

\* the volumes of the model (relative paths under the tracked root)
V1 == <<"a", "/", "b">>
V2 == <<"%", "t">>
Vols == {V1, V2}
Names == {"x", "y"}
NoAnn == "None"
Annotations == {NoAnn, "m"}
Contents == {0, 1}       \* what a live volume may hold
Keeps == {0, 1}          \* the values of --keep

\* ------------------------------------------------------------- path codec
RECURSIVE Replace(_, _, _)
\* Python's str.replace(old, new): non-overlapping occurrences, left to right
Replace(s, old, new) ==
    IF Len(s) < Len(old) THEN s
    ELSE IF SubSeq(s, 1, Len(old)) = old
         THEN new \o Replace(SubSeq(s, Len(old) + 1, Len(s)), old, new)
         ELSE <<Head(s)>> \o Replace(Tail(s), old, new)

RECURSIVE LStrip(_)
LStrip(s) == IF s # <<>> /\ Head(s) = "/" THEN LStrip(Tail(s)) ELSE s

RECURSIVE RStrip(_)
RStrip(s) ==
    IF s # <<>> /\ s[Len(s)] = "/" THEN RStrip(SubSeq(s, 1, Len(s) - 1)) ELSE s

\* str.strip("/")
Strip(s) == RStrip(LStrip(s))

\* faulty variant: the percent sign not doubled
escape_undoubled(path) ==
    Replace(Replace(Strip(path), <<"@">>, <<"%", "t">>), <<"/">>, <<"@">>)

\* faulty variant: the separator left as it is
escape_separator_kept(path) ==
    Replace(Replace(Strip(path), <<"%">>, <<"%", "%">>), <<"@">>, <<"%", "t">>)

escape(path) ==
    Replace(Replace(Replace(Strip(path), <<"%">>, <<"%", "%">>),
                    <<"@">>, <<"%", "t">>),
            <<"/">>, <<"@">>)

unescape(path) ==
    Replace(Replace(Replace(path, <<"@">>, <<"/">>),
                    <<"%", "t">>, <<"@">>),
            <<"%", "%">>, <<"%">>)

RECURSIVE Collapse(_)
\* pathlib: repeated separators collapse to one
Collapse(s) ==
    IF Len(s) < 2 THEN s
    ELSE IF s[1] = "/" /\ s[2] = "/" THEN Collapse(Tail(s))
         ELSE <<Head(s)>> \o Collapse(Tail(s))

\* Path(str): what str(Path(s)) gives back for a non-empty s
ensure_path(s) ==
    LET c == Collapse(s)
    IN  IF Len(c) > 1 /\ c[Len(c)] = "/" THEN SubSeq(c, 1, Len(c) - 1) ELSE c

\* Volume.__init__: path, name (escaped), storage directory name
VolumePath(path) == ensure_path(path)
VolumeName(path) == escape(VolumePath(path))

\* the directory names the model's volumes use under the storage root
DirNames == { VolumeName(v) : v \in Vols }
\* the paths a volumes row can hold: a model volume, or what rebuild recovers
Paths == Vols \cup { VolumePath(unescape(d)) : d \in DirNames }

VARIABLES
    live,          \* live[v]: what lies at the volume's realpath
    dirs,          \* the directories directly under the storage root
    disk,          \* disk[d][n]: the snapshot subvolume at <storage>/d/n
    volumes,       \* table volumes(id, path)
    snapshots,     \* table snapshots(id, volume_id, name, annotation)
    volumes_head,  \* table volumes_head(volume_id, head_snapshot_id)
    last,          \* the last call: what it was, how it ended, what it called
    codec,         \* the path codec's input and results (SpecCodec)
    race           \* race[p]: a create command running beside another (SpecRace)

vars == <<live, dirs, disk, volumes, snapshots, volumes_head, last, codec, race>>
fs == <<live, dirs, disk>>
index == <<volumes, snapshots, volumes_head>>

\* what lies at a live path: nothing, a plain directory, or a subvolume
Absent == [kind |-> "absent", content |-> 0]
PlainDir == [kind |-> "dir", content |-> 0]
Subvol(c) == [kind |-> "subvol", content |-> c]

NoSnap == [ro |-> FALSE, content |-> 2]
OnDisk == [ro : BOOLEAN, content : Contents] \cup {NoSnap}

\* ------------------------------------------------------------ the index
Max(S) == CHOOSE m \in S : \A k \in S : k <= m
\* sqlite INTEGER PRIMARY KEY: the largest rowid in the table plus one
NextId(rows) == IF rows = {} THEN 1 ELSE Max({ r.id : r \in rows }) + 1

DB == [volumes |-> volumes, snapshots |-> snapshots, volumes_head |-> volumes_head]

\* SELECT id FROM volumes WHERE path = ?  (load of a fresh Volume object)
load_volume(db, path) ==
    IF \E r \in db.volumes : r.path = path
    THEN (CHOOSE r \in db.volumes : r.path = path).id
    ELSE NULL

\* SELECT ... FROM snapshots WHERE volume_id = ? AND name = ?
snapshot_rows(db, vid, name) ==
    { r \in db.snapshots : r.volume_id = vid /\ r.name = name }

\* load of a fresh Snapshot object: its id, or NULL for SnapshotNotFound
load_snapshot(db, path, name) ==
    LET rows == snapshot_rows(db, load_volume(db, path), name)
    IN  IF rows = {} THEN NULL ELSE (CHOOSE r \in rows : TRUE).id

\* faulty variant: the reference not enforced (foreign keys off)
head_set_null_ignored(heads, gone) == heads

\* faulty variant: the reference declared ON DELETE CASCADE
head_set_null_cascading(heads, gone) ==
    { h \in heads : h.head_snapshot_id \notin gone }

\* ON DELETE SET NULL of volumes_head.head_snapshot_id
head_set_null(heads, gone) ==
    { IF h.head_snapshot_id \in gone
      THEN [h EXCEPT !.head_snapshot_id = NULL] ELSE h : h \in heads }

\* faulty variant: the head row of a new volume not inserted
register_volume_headless(db, path) ==
    IF \E r \in db.volumes : r.path = path
    THEN db
    ELSE [db EXCEPT !.volumes = @ \cup {[id |-> NextId(db.volumes), path |-> path]}]

\* faulty variant: a plain INSERT into a table whose path is not UNIQUE
register_volume_duplicating(db, path) ==
    LET id == NextId(db.volumes)
    IN  [db EXCEPT
           !.volumes = @ \cup {[id |-> id, path |-> path]},
           !.volumes_head = @ \cup {[volume_id |-> id, head_snapshot_id |-> NULL]}]

\* register(Volume): INSERT OR IGNORE, and the head row of a new volume
register_volume(db, path) ==
    IF \E r \in db.volumes : r.path = path
    THEN db
    ELSE LET id == NextId(db.volumes)
         IN  [db EXCEPT
                !.volumes = @ \cup {[id |-> id, path |-> path]},
                !.volumes_head =
                    IF \E h \in @ : h.volume_id = id THEN @
                    ELSE @ \cup {[volume_id |-> id, head_snapshot_id |-> NULL]}]

\* the id the Volume object holds after register: lastrowid of the insert, or,
\* when the insert was ignored, what load leaves (load keeps an id already held)
registered_id(db, path, held) ==
    IF \E r \in db.volumes : r.path = path
    THEN IF held # NULL THEN held ELSE load_volume(db, path)
    ELSE NextId(db.volumes)

\* register(Snapshot): INSERT OR REPLACE on UNIQUE (volume_id, name)
register_snapshot(db, vid, name, ann) ==
    LET old == snapshot_rows(db, vid, name)
        id == NextId(db.snapshots)
    IN  [db EXCEPT
           !.snapshots = (@ \ old) \cup
               {[id |-> id, volume_id |-> vid, name |-> name, annotation |-> ann]},
           !.volumes_head = head_set_null(@, { r.id : r \in old })]

\* faulty variant: the DELETE without its name-or-id condition
unregister_snapshot_unfiltered(db, vid, name, sid) ==
    LET gone == { r \in db.snapshots : r.volume_id = vid }
    IN  [db EXCEPT
           !.snapshots = @ \ gone,
           !.volumes_head = head_set_null(@, { r.id : r \in gone })]

\* unregister(Snapshot): DELETE ... WHERE volume_id = ? AND (name = ? OR id = ?)
unregister_snapshot(db, vid, name, sid) ==
    LET gone == { r \in db.snapshots :
                    r.volume_id = vid /\ (r.name = name \/ (sid # NULL /\ r.id = sid)) }
    IN  [db EXCEPT
           !.snapshots = @ \ gone,
           !.volumes_head = head_set_null(@, { r.id : r \in gone })]

\* unregister(Volume): DELETE FROM volumes WHERE id = ?, with the cascades
unregister_volume(db, vid) ==
    IF vid = NULL THEN db
    ELSE [db EXCEPT
            !.volumes = { r \in @ : r.id # vid },
            !.snapshots = { r \in @ : r.volume_id # vid },
            !.volumes_head =
                head_set_null({ h \in @ : h.volume_id # vid },
                              { r.id : r \in { s \in db.snapshots : s.volume_id = vid } })]

\* faulty variant: the row deleted and inserted anew instead of updated
update_snapshot_reinserted(db, sid, name, ann) ==
    LET old == { r \in db.snapshots : r.id = sid }
    IN  [db EXCEPT
           !.snapshots = (@ \ old) \cup
               { [id |-> NextId(db.snapshots), volume_id |-> r.volume_id,
                  name |-> name, annotation |-> ann] : r \in old },
           !.volumes_head = head_set_null(@, {sid})]

\* update(Snapshot): UPDATE snapshots SET name, time, annotation WHERE id = ?
update_snapshot(db, sid, name, ann) ==
    [db EXCEPT !.snapshots =
        { IF r.id = sid THEN [r EXCEPT !.name = name, !.annotation = ann] ELSE r
          : r \in @ }]

\* faulty variant: the UPDATE never issued
set_head_skipped(db, vid, sid) == db

\* set_head: UPDATE volumes_head SET head_snapshot_id = ? WHERE volume_id = ?
set_head(db, vid, sid) ==
    [db EXCEPT !.volumes_head =
        { IF h.volume_id = vid THEN [h EXCEPT !.head_snapshot_id = sid] ELSE h
          : h \in @ }]

\* faulty variant: the query run with the volume's id never loaded
snapshots_of_unloaded(db, path) ==
    { r \in db.snapshots : r.volume_id = NULL }

\* snapshots(volume): the rows of a volume (a name-keyed mapping in the code)
snapshots_of(db, path) ==
    { r \in db.snapshots : r.volume_id = load_volume(db, path) /\ r.volume_id # NULL }

snapshot_names(db, path) == { r.name : r \in snapshots_of(db, path) }

\* head(volume): snapshots JOIN volumes_head ON snapshots.id = head_snapshot_id
\* WHERE snapshots.volume_id = ?; the ids of the rows the query can return
head_ids(db, path) ==
    { r.id : r \in { s \in snapshots_of(db, path) :
                       \E h \in db.volumes_head : h.head_snapshot_id = s.id } }

\* Snapshot.is_head of a snapshot object loaded by name
is_head(db, path, name) ==
    LET sid == load_snapshot(db, path, name)
    IN  sid # NULL /\ sid \in head_ids(db, path)

\* ------------------------------------------------------------ the calls
Call(op, res, steps) == [op |-> op, res |-> res, steps |-> steps]

SetIndex(db) ==
    /\ volumes' = db.volumes
    /\ snapshots' = db.snapshots
    /\ volumes_head' = db.volumes_head

\* after init: an empty storage root, empty tables, the volumes live
InitSystem ==
    /\ live = [v \in Vols |-> Subvol(0)]
    /\ dirs = {}
    /\ disk = [d \in DirNames |-> [n \in Names |-> NoSnap]]
    /\ volumes = {}
    /\ snapshots = {}
    /\ volumes_head = {}
    /\ last = Call("init", "ok", <<>>)

\* the create commands of SpecRace, and their state while none is running
Procs == {"p1", "p2"}
NoRace == [p \in Procs |-> [pc |-> "idle", name |-> "x", vid |-> NULL, sid |-> NULL]]

Init ==
    /\ InitSystem
    /\ codec = [pc |-> "idle", p |-> <<>>, e |-> <<>>, u |-> <<>>]
    /\ race = NoRace

\* Snapshot.create on Snapshot(volume v, name n) with annotation ann
Create(v, n, ann, f) ==
    LET d == VolumeName(v)
        path == VolumePath(v)
        db1 == register_volume(DB, path)
        vid == load_volume(db1, path)
        sid == NextId(db1.snapshots)
        db2 == register_snapshot(db1, vid, n, ann)
        db3 == set_head(db2, vid, sid)
    IN  /\ f \in {"none", "mkdir", "create_snapshot"}
        /\ UNCHANGED <<live, codec, race>>
        /\ IF f = "mkdir"
           THEN /\ UNCHANGED <<dirs, disk, index>>
                /\ last' = Call("create", "OSError", <<"mkdir">>)
           ELSE IF f = "create_snapshot" \/ live[v].kind # "subvol"
                   \/ disk[d][n] # NoSnap
           THEN /\ dirs' = dirs \cup {d}
                /\ UNCHANGED <<disk, index>>
                /\ last' = Call("create", "BtrfsUtilError", <<"mkdir", "create_snapshot">>)
           ELSE /\ NextId(DB.volumes) <= MaxId
                /\ sid <= MaxId
                /\ dirs' = dirs \cup {d}
                /\ disk' = [disk EXCEPT ![d][n] = [ro |-> TRUE, content |-> live[v].content]]
                /\ SetIndex(db3)
                /\ last' = Call("create", "ok", <<"mkdir", "create_snapshot">>)

\* faulty variant: unregister moved before the physical delete
Delete_unregister_first(v, n, f) ==
    LET d == VolumeName(v)
        path == VolumePath(v)
        sid == load_snapshot(DB, path, n)
        after == unregister_snapshot(DB, load_volume(DB, path), n, sid)
    IN  /\ f \in {"none", "set_rw", "delete_subvolume"}
        /\ UNCHANGED <<live, dirs, codec, race>>
        /\ IF sid = NULL
           THEN /\ f = "none"
                /\ UNCHANGED <<disk, index>>
                /\ last' = Call("delete", "SnapshotNotFound", <<>>)
           ELSE IF f = "set_rw" \/ disk[d][n] = NoSnap
           THEN /\ UNCHANGED disk
                /\ SetIndex(after)
                /\ last' = Call("delete", "BtrfsUtilError", <<"set_rw">>)
           ELSE IF f = "delete_subvolume"
           THEN /\ disk' = [disk EXCEPT ![d][n].ro = FALSE]
                /\ SetIndex(after)
                /\ last' = Call("delete", "BtrfsUtilError", <<"set_rw", "delete_subvolume">>)
           ELSE /\ disk' = [disk EXCEPT ![d][n] = NoSnap]
                /\ SetIndex(after)
                /\ last' = Call("delete", "ok", <<"set_rw", "delete_subvolume">>)

\* Snapshot.delete on the Snapshot object the delete command loaded by name
Delete(v, n, f) ==
    LET d == VolumeName(v)
        path == VolumePath(v)
        sid == load_snapshot(DB, path, n)
    IN  /\ f \in {"none", "set_rw", "delete_subvolume"}
        /\ UNCHANGED <<live, dirs, codec, race>>
        /\ IF sid = NULL
           THEN /\ f = "none"
                /\ UNCHANGED <<disk, index>>
                /\ last' = Call("delete", "SnapshotNotFound", <<>>)
           ELSE IF f = "set_rw" \/ disk[d][n] = NoSnap
           THEN /\ UNCHANGED <<disk, index>>
                /\ last' = Call("delete", "BtrfsUtilError", <<"set_rw">>)
           ELSE IF f = "delete_subvolume"
           THEN /\ disk' = [disk EXCEPT ![d][n].ro = FALSE]
                /\ UNCHANGED index
                /\ last' = Call("delete", "BtrfsUtilError", <<"set_rw", "delete_subvolume">>)
           ELSE /\ disk' = [disk EXCEPT ![d][n] = NoSnap]
                /\ SetIndex(unregister_snapshot(DB, load_volume(DB, path), n, sid))
                /\ last' = Call("delete", "ok", <<"set_rw", "delete_subvolume">>)

\* Snapshot.name setter (rename) on the Snapshot object the command loaded
Rename(v, n, new, f) ==
    LET d == VolumeName(v)
        path == VolumePath(v)
        sid == load_snapshot(DB, path, n)
        row == CHOOSE r \in DB.snapshots : r.id = sid
    IN  /\ f \in {"none", "set_rw", "move", "set_ro"}
        /\ UNCHANGED <<live, dirs, codec, race>>
        /\ IF sid = NULL
           THEN /\ f = "none"
                /\ UNCHANGED <<disk, index>>
                /\ last' = Call("rename", "SnapshotNotFound", <<>>)
           ELSE IF new \in snapshot_names(DB, path)
           THEN /\ f = "none"
                /\ UNCHANGED <<disk, index>>
                /\ last' = Call("rename", "SnapshotExists", <<>>)
           ELSE IF f = "set_rw" \/ disk[d][n] = NoSnap
           THEN /\ UNCHANGED <<disk, index>>
                /\ last' = Call("rename", "BtrfsUtilError", <<"set_rw">>)
           ELSE IF f = "move" \/ (disk[d][new] # NoSnap /\ disk[d][new].ro)
           THEN \* shutil.move raised: the source stays, writable
                /\ disk' = [disk EXCEPT ![d][n].ro = FALSE]
                /\ UNCHANGED index
                /\ last' = Call("rename", "OSError", <<"set_rw", "move">>)
           ELSE LET moved == IF disk[d][new] = NoSnap
                             THEN [disk EXCEPT ![d][new] = [disk[d][n] EXCEPT !.ro = FALSE],
                                               ![d][n] = NoSnap]
                             \* an existing writable directory: moved inside it
                             ELSE [disk EXCEPT ![d][n] = NoSnap]
                IN  IF f = "set_ro"
                    THEN /\ disk' = moved
                         /\ UNCHANGED index
                         /\ last' = Call("rename", "BtrfsUtilError", <<"set_rw", "move", "set_ro">>)
                    ELSE /\ disk' = [moved EXCEPT ![d][new].ro = TRUE]
                         /\ SetIndex(update_snapshot(DB, sid, new, row.annotation))
                         /\ last' = Call("rename", "ok", <<"set_rw", "move", "set_ro">>)

\* Snapshot.load_to_path: can the snapshot at <storage>/d/n be materialized
can_load(d, n, f) == f # "create_snapshot" /\ d \in dirs /\ disk[d][n] # NoSnap

\* faulty variant: the live path not verified to be a subvolume before the delete
Switch_unverified(v, n, f) ==
    LET d == VolumeName(v)
        path == VolumePath(v)
        vid == load_volume(DB, path)
        sid == load_snapshot(DB, path, n)
    IN  /\ f \in {"none", "delete_subvolume", "create_snapshot"}
        /\ UNCHANGED <<dirs, disk, codec, race>>
        /\ IF d \notin dirs
           THEN /\ f = "none"
                /\ UNCHANGED <<live, index>>
                /\ last' = Call("switch", "NoSnapshotsError", <<>>)
           ELSE IF n \notin snapshot_names(DB, path)
           THEN /\ f = "none"
                /\ UNCHANGED <<live, index>>
                /\ last' = Call("switch", "SnapshotNotFound", <<>>)
           ELSE IF live[v].kind = "absent"
           THEN \* the live path does not exist: load the snapshot and return
                /\ f # "delete_subvolume"
                /\ UNCHANGED index
                /\ IF can_load(d, n, f)
                   THEN /\ live' = [live EXCEPT ![v] = Subvol(disk[d][n].content)]
                        /\ last' = Call("switch", "ok", <<"create_snapshot">>)
                   ELSE /\ UNCHANGED live
                        /\ last' = Call("switch", "BtrfsUtilError", <<"create_snapshot">>)
           ELSE IF f = "delete_subvolume" \/ live[v].kind = "dir"
           THEN /\ UNCHANGED <<live, index>>
                /\ last' = Call("switch", "BtrfsUtilError", <<"delete_subvolume">>)
           ELSE IF ~can_load(d, n, f)
           THEN /\ live' = [live EXCEPT ![v] = Absent]
                /\ UNCHANGED index
                /\ last' = Call("switch", "BtrfsUtilError", <<"delete_subvolume", "create_snapshot">>)
           ELSE /\ live' = [live EXCEPT ![v] = Subvol(disk[d][n].content)]
                /\ SetIndex(set_head(DB, vid, sid))
                /\ last' = Call("switch", "ok", <<"delete_subvolume", "create_snapshot">>)

\* faulty variant: the head set before the snapshot is materialized
Switch_head_first(v, n, f) ==
    LET d == VolumeName(v)
        path == VolumePath(v)
        vid == load_volume(DB, path)
        sid == load_snapshot(DB, path, n)
    IN  /\ f \in {"none", "delete_subvolume", "create_snapshot"}
        /\ UNCHANGED <<dirs, disk, codec, race>>
        /\ IF d \notin dirs
           THEN /\ f = "none"
                /\ UNCHANGED <<live, index>>
                /\ last' = Call("switch", "NoSnapshotsError", <<>>)
           ELSE IF n \notin snapshot_names(DB, path)
           THEN /\ f = "none"
                /\ UNCHANGED <<live, index>>
                /\ last' = Call("switch", "SnapshotNotFound", <<>>)
           ELSE IF live[v].kind = "absent"
           THEN \* the live path does not exist: load the snapshot and return
                /\ f # "delete_subvolume"
                /\ UNCHANGED index
                /\ IF can_load(d, n, f)
                   THEN /\ live' = [live EXCEPT ![v] = Subvol(disk[d][n].content)]
                        /\ last' = Call("switch", "ok", <<"create_snapshot">>)
                   ELSE /\ UNCHANGED live
                        /\ last' = Call("switch", "BtrfsUtilError", <<"create_snapshot">>)
           ELSE IF live[v].kind = "dir"
           THEN /\ f = "none"
                /\ UNCHANGED <<live, index>>
                /\ last' = Call("switch", "NotASubvolume", <<>>)
           ELSE IF f = "delete_subvolume"
           THEN /\ UNCHANGED <<live, index>>
                /\ last' = Call("switch", "BtrfsUtilError", <<"delete_subvolume">>)
           ELSE IF ~can_load(d, n, f)
           THEN /\ live' = [live EXCEPT ![v] = Absent]
                /\ SetIndex(set_head(DB, vid, sid))
                /\ last' = Call("switch", "BtrfsUtilError", <<"delete_subvolume", "create_snapshot">>)
           ELSE /\ live' = [live EXCEPT ![v] = Subvol(disk[d][n].content)]
                /\ SetIndex(set_head(DB, vid, sid))
                /\ last' = Call("switch", "ok", <<"delete_subvolume", "create_snapshot">>)

\* Volume.switch(snapshot)
Switch(v, n, f) ==
    LET d == VolumeName(v)
        path == VolumePath(v)
        vid == load_volume(DB, path)
        sid == load_snapshot(DB, path, n)
    IN  /\ f \in {"none", "delete_subvolume", "create_snapshot"}
        /\ UNCHANGED <<dirs, disk, codec, race>>
        /\ IF d \notin dirs
           THEN /\ f = "none"
                /\ UNCHANGED <<live, index>>
                /\ last' = Call("switch", "NoSnapshotsError", <<>>)
           ELSE IF n \notin snapshot_names(DB, path)
           THEN /\ f = "none"
                /\ UNCHANGED <<live, index>>
                /\ last' = Call("switch", "SnapshotNotFound", <<>>)
           ELSE IF live[v].kind = "absent"
           THEN \* the live path does not exist: load the snapshot and return
                /\ f # "delete_subvolume"
                /\ UNCHANGED index
                /\ IF can_load(d, n, f)
                   THEN /\ live' = [live EXCEPT ![v] = Subvol(disk[d][n].content)]
                        /\ last' = Call("switch", "ok", <<"create_snapshot">>)
                   ELSE /\ UNCHANGED live
                        /\ last' = Call("switch", "BtrfsUtilError", <<"create_snapshot">>)
           ELSE IF live[v].kind = "dir"
           THEN /\ f = "none"
                /\ UNCHANGED <<live, index>>
                /\ last' = Call("switch", "NotASubvolume", <<>>)
           ELSE IF f = "delete_subvolume"
           THEN /\ UNCHANGED <<live, index>>
                /\ last' = Call("switch", "BtrfsUtilError", <<"delete_subvolume">>)
           ELSE IF ~can_load(d, n, f)
           THEN /\ live' = [live EXCEPT ![v] = Absent]
                /\ UNCHANGED index
                /\ last' = Call("switch", "BtrfsUtilError", <<"delete_subvolume", "create_snapshot">>)
           ELSE /\ live' = [live EXCEPT ![v] = Subvol(disk[d][n].content)]
                /\ SetIndex(set_head(DB, vid, sid))
                /\ last' = Call("switch", "ok", <<"delete_subvolume", "create_snapshot">>)

\* Snapshot.annotation setter on the Snapshot object the command loaded
Annotate(v, n, ann) ==
    LET path == VolumePath(v)
        sid == load_snapshot(DB, path, n)
    IN  /\ UNCHANGED <<fs, codec, race>>
        /\ IF sid = NULL
           THEN /\ UNCHANGED index
                /\ last' = Call("annotate", "SnapshotNotFound", <<>>)
           ELSE /\ SetIndex(update_snapshot(DB, sid, n, ann))
                /\ last' = Call("annotate", "ok", <<>>)

\* faulty variant: unregister called before the rmdir
RemoveStorage_unregister_first(v) ==
    LET d == VolumeName(v)
        path == VolumePath(v)
    IN  /\ UNCHANGED <<live, disk, codec, race>>
        /\ IF d \notin dirs \/ \E n \in Names : disk[d][n] # NoSnap
           THEN /\ UNCHANGED dirs
                /\ SetIndex(unregister_volume(DB, load_volume(DB, path)))
                /\ last' = Call("removeStorage", "OSError", <<"rmdir">>)
           ELSE /\ dirs' = dirs \ {d}
                /\ SetIndex(unregister_volume(DB, load_volume(DB, path)))
                /\ last' = Call("removeStorage", "ok", <<"rmdir">>)

\* Volume.remove_storage on the Volume object the delete command has loaded
RemoveStorage(v) ==
    LET d == VolumeName(v)
        path == VolumePath(v)
    IN  /\ UNCHANGED <<live, disk, codec, race>>
        /\ IF d \notin dirs \/ \E n \in Names : disk[d][n] # NoSnap
           THEN /\ UNCHANGED <<dirs, index>>
                /\ last' = Call("removeStorage", "OSError", <<"rmdir">>)
           ELSE /\ dirs' = dirs \ {d}
                /\ SetIndex(unregister_volume(DB, load_volume(DB, path)))
                /\ last' = Call("removeStorage", "ok", <<"rmdir">>)

\* the sequences that list every element of S once (an iterdir order)
Orders(S) ==
    { o \in [1..Cardinality(S) -> S] : \A i, j \in 1..Cardinality(S) :
                                          i # j => o[i] # o[j] }

RECURSIVE register_found(_, _, _, _)
\* rebuild_metadata's inner loop: register every snapshot directory of d
register_found(db, vid, d, norder) ==
    IF norder = <<>> THEN db
    ELSE register_found(
            IF disk[d][Head(norder)] # NoSnap
            THEN register_snapshot(db, vid, Head(norder), NoAnn) ELSE db,
            vid, d, Tail(norder))

RECURSIVE rebuild_from(_, _, _)
\* rebuild_metadata's outer loop over the directories of the storage root;
\* iterating a volume's storage directory that does not exist raises
rebuild_from(db, dorder, norder) ==
    IF dorder = <<>> THEN [db |-> db, res |-> "ok"]
    ELSE LET path == VolumePath(unescape(Head(dorder)))
             db1 == register_volume(db, path)
             st == VolumeName(path)
         IN  IF st \notin dirs
             THEN [db |-> db1, res |-> "FileNotFoundError"]
             ELSE rebuild_from(
                     register_found(db1, load_volume(db1, path), st, norder),
                     Tail(dorder), norder)

EmptyIndex == [volumes |-> {}, snapshots |-> {}, volumes_head |-> {}]

\* SnapshotStorage.rebuild_metadata, the directories listed in some order
Rebuild(dorder, norder) ==
    LET r == rebuild_from(EmptyIndex, dorder, norder)
    IN  /\ UNCHANGED <<fs, codec, race>>
        /\ SetIndex(r.db)
        /\ last' = Call("rebuild", r.res, <<>>)

\* the rm command (Volume.delete): the live subvolume is removed
RmLive(v) ==
    /\ live[v].kind = "subvol"
    /\ live' = [live EXCEPT ![v] = Absent]
    /\ UNCHANGED <<dirs, disk, index, codec, race>>
    /\ last' = Call("rm", "ok", <<"delete_subvolume">>)

\* the delete command with --keep and no snapshot names: the volume argument
\* needs the storage directory, then dict.values() is sliced, which raises
DeleteKeep(v, keep) ==
    /\ UNCHANGED <<fs, index, codec, race>>
    /\ last' = Call("delete_keep",
                    IF VolumeName(v) \notin dirs THEN "NoSnapshotsError" ELSE "TypeError",
                    <<>>)

\* the create command without a snapshot name: the name is the default the
\* argument declaration generated once; the volume argument must be a live
\* subvolume, the snapshot argument must not exist on disk, then create()
CreateUnnamed(v, cand) ==
    IF live[v].kind # "subvol"
    THEN /\ UNCHANGED <<fs, index, codec, race>>
         /\ last' = Call("create_unnamed",
                         IF live[v].kind = "absent" THEN "SubvolumeNotFound"
                                                    ELSE "NotASubvolume",
                         <<>>)
    ELSE IF disk[VolumeName(v)][cand] # NoSnap
    THEN /\ UNCHANGED <<fs, index, codec, race>>
         /\ last' = Call("create_unnamed", "SnapshotExists", <<>>)
    ELSE Create(v, cand, NoAnn, "none")

\* the operator's own doing at a live path: writes into the subvolume,
\* makes a plain directory or a subvolume where nothing is, removes a directory
Operator(v, to) ==
    /\ \/ live[v].kind = "subvol" /\ to.kind = "subvol" /\ to # live[v]
       \/ live[v].kind = "absent" /\ to \in {PlainDir, Subvol(0)}
       \/ live[v].kind = "dir" /\ to = Absent
    /\ live' = [live EXCEPT ![v] = to]
    /\ UNCHANGED <<dirs, disk, index, codec, race>>
    /\ last' = Call("operator", "ok", <<>>)

LiveStates == {Absent, PlainDir} \cup { Subvol(c) : c \in Contents }

\* Spec: every call on one volume, with every fail point
Next ==
    \/ \E n \in Names, ann \in Annotations,
          f \in {"none", "mkdir", "create_snapshot"} : Create(V1, n, ann, f)
    \/ \E n \in Names, f \in {"none", "set_rw", "delete_subvolume"} : Delete(V1, n, f)
    \/ \E n \in Names, new \in Names,
          f \in {"none", "set_rw", "move", "set_ro"} : Rename(V1, n, new, f)
    \/ \E n \in Names,
          f \in {"none", "delete_subvolume", "create_snapshot"} : Switch(V1, n, f)
    \/ \E n \in Names, ann \in Annotations : Annotate(V1, n, ann)
    \/ RemoveStorage(V1)
    \/ \E dorder \in Orders(dirs), norder \in Orders(Names) : Rebuild(dorder, norder)
    \/ RmLive(V1)
    \/ \E to \in LiveStates : Operator(V1, to)
    \/ \E keep \in Keeps : DeleteKeep(V1, keep)
    \/ \E cand \in Names : CreateUnnamed(V1, cand)

Spec == Init /\ [][Next]_vars

\* SpecTwo: two volumes side by side in one index and one storage root; the
\* second volume takes one snapshot name, and only the fail points that leave
\* the index and the tree apart are drawn
NamesOf(v) == IF v = V1 THEN Names ELSE {"x"}
AnnotationsOf(v, n) == IF v = V1 /\ n = "x" THEN Annotations ELSE {NoAnn}

NextTwo ==
    \/ \E v \in Vols : \E n \in NamesOf(v) : \E ann \in AnnotationsOf(v, n) :
          \E f \in {"none", "create_snapshot"} : Create(v, n, ann, f)
    \/ \E v \in Vols : \E n \in NamesOf(v) : Delete(v, n, "none")
    \/ \E v \in Vols : \E n \in NamesOf(v), new \in NamesOf(v) :
          \E f \in {"none", "set_ro"} : Rename(v, n, new, f)
    \/ \E v \in Vols : \E n \in NamesOf(v) : Switch(v, n, "none")
    \/ \E v \in Vols : RemoveStorage(v)
    \/ \E dorder \in Orders(dirs), norder \in Orders(Names) : Rebuild(dorder, norder)

SpecTwo == Init /\ [][NextTwo]_vars

\* SpecCodec: the path codec applied to every string up to MaxLen
Strings == UNION { [1..k -> Alphabet] : k \in 0..MaxLen }

InitCodec ==
    /\ InitSystem
    /\ \E p \in Strings : codec = [pc |-> "start", p |-> p, e |-> <<>>, u |-> <<>>]
    /\ race = NoRace

Escape ==
    /\ codec.pc = "start"
    /\ codec' = [codec EXCEPT !.pc = "escaped", !.e = escape(codec.p)]
    /\ UNCHANGED <<fs, index, last, race>>

Unescape ==
    /\ codec.pc = "escaped"
    /\ codec' = [codec EXCEPT !.pc = "done", !.u = unescape(codec.e)]
    /\ UNCHANGED <<fs, index, last, race>>

NextCodec == Escape \/ Unescape

SpecCodec == InitCodec /\ [][NextCodec]_vars

\* SpecIndex: the index interface of SnapshotStorage called directly, on a
\* Volume object that is fresh (id None) or loaded (id read from the index)
HeldId(path, loaded) == IF loaded THEN load_volume(DB, path) ELSE NULL

\* STORAGE.register(Volume(v))
RegisterVolume(v, loaded) ==
    LET path == VolumePath(v)
    IN  /\ NextId(DB.volumes) <= MaxId \/ load_volume(DB, path) # NULL
        /\ SetIndex(register_volume(DB, path))
        /\ UNCHANGED <<fs, codec, race>>
        /\ last' = Call("register_volume", "ok", <<>>)

\* STORAGE.register(Snapshot(Volume(v), n)): the INSERT takes volume.id as the
\* object holds it; NULL breaks NOT NULL and the statement raises
RegisterSnapshot(v, n, ann, loaded) ==
    LET vid == HeldId(VolumePath(v), loaded)
    IN  /\ UNCHANGED <<fs, codec, race>>
        /\ IF vid = NULL
           THEN /\ UNCHANGED index
                /\ last' = Call("register_snapshot", "IntegrityError", <<>>)
           ELSE /\ NextId(DB.snapshots) <= MaxId
                /\ SetIndex(register_snapshot(DB, vid, n, ann))
                /\ last' = Call("register_snapshot", "ok", <<>>)

\* STORAGE.unregister(Volume(v))
UnregisterVolume(v, loaded) ==
    /\ SetIndex(unregister_volume(DB, HeldId(VolumePath(v), loaded)))
    /\ UNCHANGED <<fs, codec, race>>
    /\ last' = Call("unregister_volume", "ok", <<>>)

\* STORAGE.unregister(Snapshot(Volume(v), n)): loads the volume itself
UnregisterSnapshot(v, n) ==
    /\ SetIndex(unregister_snapshot(DB, load_volume(DB, VolumePath(v)), n, NULL))
    /\ UNCHANGED <<fs, codec, race>>
    /\ last' = Call("unregister_snapshot", "ok", <<>>)

\* STORAGE.set_head(Volume(v), Snapshot(Volume(v), n)): loads both
SetHead(v, n) ==
    LET path == VolumePath(v)
        sid == load_snapshot(DB, path, n)
    IN  /\ UNCHANGED <<fs, codec, race>>
        /\ IF sid = NULL
           THEN /\ UNCHANGED index
                /\ last' = Call("set_head", "SnapshotNotFound", <<>>)
           ELSE /\ SetIndex(set_head(DB, load_volume(DB, path), sid))
                /\ last' = Call("set_head", "ok", <<>>)

\* snapshot.annotation = ann on Snapshot(Volume(v), n), fresh or loaded: the
\* setter stores ann and calls update, whose load of a fresh object assigns
\* obj.annotation from the row, through this same setter, before the UPDATE
SetAnnotation(v, n, ann, loaded) ==
    LET path == VolumePath(v)
        sid == load_snapshot(DB, path, n)
        row == CHOOSE r \in DB.snapshots : r.id = sid
    IN  /\ UNCHANGED <<fs, codec, race>>
        /\ IF sid = NULL
           THEN /\ ~loaded
                /\ UNCHANGED index
                /\ last' = Call("set_annotation", "SnapshotNotFound", <<>>)
           ELSE /\ SetIndex(update_snapshot(DB, sid, n,
                                            IF loaded THEN ann ELSE row.annotation))
                /\ last' = Call("set_annotation", "ok", <<>>)

NextIndex ==
    \/ \E v \in Vols, loaded \in BOOLEAN : RegisterVolume(v, loaded)
    \/ \E v \in Vols, n \in Names, loaded \in BOOLEAN :
          RegisterSnapshot(v, n, NoAnn, loaded)
    \/ \E v \in Vols, loaded \in BOOLEAN : UnregisterVolume(v, loaded)
    \/ \E v \in Vols, n \in Names : UnregisterSnapshot(v, n)
    \/ \E v \in Vols, n \in Names : SetHead(v, n)
    \/ \E n \in Names, loaded \in BOOLEAN : SetAnnotation(V1, n, "m", loaded)

SpecIndex == Init /\ [][NextIndex]_vars

\* SpecRace: two create commands (without --force) on one volume, run by two
\* processes side by side; a step is one check, one primitive or one index
\* transaction of Snapshot.create, and the steps of the two interleave freely

\* faulty variant: a create_snapshot that takes an existing destination
create_snapshot_clobbering(d, n) == TRUE

\* btrfsutil.create_snapshot(source, dest): refused when dest exists
create_snapshot_free(d, n) == disk[d][n] = NoSnap

P1Race == VolumePath(V1)
D1Race == VolumeName(V1)

At(p, pc) == race[p].pc = pc
Goto(p, pc) == race' = [race EXCEPT ![p].pc = pc]

\* the argument converter: Snapshot.assert_not_exists
RaceCheck(p) ==
    /\ At(p, "check")
    /\ Goto(p, IF disk[D1Race][race[p].name] # NoSnap THEN "SnapshotExists" ELSE "mkdir")
    /\ UNCHANGED <<fs, index, last, codec>>

\* self.path.parent.mkdir(exist_ok=True, parents=True)
RaceMkdir(p) ==
    /\ At(p, "mkdir")
    /\ dirs' = dirs \cup {D1Race}
    /\ Goto(p, "create_snapshot")
    /\ UNCHANGED <<live, disk, index, last, codec>>

\* btrfsutil.create_snapshot(realpath, path, read_only=True)
RaceSnapshot(p) ==
    /\ At(p, "create_snapshot")
    /\ IF live[V1].kind = "subvol" /\ create_snapshot_free(D1Race, race[p].name)
       THEN /\ disk' = [disk EXCEPT ![D1Race][race[p].name] =
                                        [ro |-> TRUE, content |-> live[V1].content]]
            /\ Goto(p, "register_volume")
       ELSE /\ UNCHANGED disk
            /\ Goto(p, "BtrfsUtilError")
    /\ UNCHANGED <<live, dirs, index, last, codec>>

\* STORAGE.register(self.volume)
RaceRegisterVolume(p) ==
    /\ At(p, "register_volume")
    /\ SetIndex(register_volume(DB, P1Race))
    /\ race' = [race EXCEPT ![p].pc = "register_snapshot",
                            ![p].vid = registered_id(DB, P1Race, NULL)]
    /\ UNCHANGED <<fs, last, codec>>

\* STORAGE.register(self)
RaceRegisterSnapshot(p) ==
    /\ At(p, "register_snapshot")
    /\ SetIndex(register_snapshot(DB, race[p].vid, race[p].name, NoAnn))
    /\ race' = [race EXCEPT ![p].pc = "set_head", ![p].sid = NextId(DB.snapshots)]
    /\ UNCHANGED <<fs, last, codec>>

\* self.volume.head = self
RaceSetHead(p) ==
    /\ At(p, "set_head")
    /\ SetIndex(set_head(DB, race[p].vid, race[p].sid))
    /\ Goto(p, "done")
    /\ UNCHANGED <<fs, last, codec>>

InitRace ==
    /\ InitSystem
    /\ codec = [pc |-> "idle", p |-> <<>>, e |-> <<>>, u |-> <<>>]
    /\ race \in [Procs -> { [pc |-> "check", name |-> n, vid |-> NULL, sid |-> NULL] :
                               n \in Names }]

NextRace ==
    \E p \in Procs :
        \/ RaceCheck(p)
        \/ RaceMkdir(p)
        \/ RaceSnapshot(p)
        \/ RaceRegisterVolume(p)
        \/ RaceRegisterSnapshot(p)
        \/ RaceSetHead(p)

SpecRace == InitRace /\ [][NextRace]_vars

\* ------------------------------------------------------------- the claims
\* the index after the step
DBnext ==
    [volumes |-> volumes', snapshots |-> snapshots', volumes_head |-> volumes_head']

P1 == VolumePath(V1)
D1 == VolumeName(V1)

\* the rows of the first volume, read off the tables directly
RowsOf(db, path) ==
    { r \in db.snapshots : \E w \in db.volumes : w.path = path /\ w.id = r.volume_id }
Registered(db, path, n) == \E r \in RowsOf(db, path) : r.name = n
HeadRows(db, path) ==
    { h \in db.volumes_head : \E w \in db.volumes : w.path = path /\ w.id = h.volume_id }

\* C1: a successful Snapshot.create of s on v leaves s the head of v, the only
\* one (one head row, pointing at s's row), and every snapshot that was listed
\* before is still listed, so a second create moves the head and keeps the first
C1_CreateSetsSoleHead ==
    [][(last'.op = "create" /\ last'.res = "ok") =>
       \A n \in Names, ann \in Annotations :
          Create(V1, n, ann, "none") =>
              LET rows == { r \in RowsOf(DBnext, P1) : r.name = n }
              IN  /\ Cardinality(rows) = 1
                  /\ is_head(DBnext, P1, n)
                  /\ head_ids(DBnext, P1) = { r.id : r \in rows }
                  /\ { h.head_snapshot_id : h \in HeadRows(DBnext, P1) }
                        = { r.id : r \in rows }
                  /\ Cardinality(HeadRows(DBnext, P1)) = 1
                  /\ { r.name : r \in RowsOf(DBnext, P1) }
                        = { r.name : r \in RowsOf(DB, P1) } \cup {n}]_vars

\* a second snapshot was just created: both are listed, one is the head
C1_Witness ==
    /\ last.op = "create" /\ last.res = "ok"
    /\ { r.name : r \in RowsOf(DB, P1) } = Names
    /\ \E n \in Names : is_head(DB, P1, n)

\* C2 (as claimed): every successful Volume.switch(target) leaves target the
\* head and a writable copy of target's content at the live path
C2_SwitchSetsHeadAndLive ==
    [][(last'.op = "switch" /\ last'.res = "ok") =>
       \A n \in Names :
          Switch(V1, n, "none") =>
              /\ is_head(DBnext, P1, n)
              /\ live'[V1] = Subvol(disk[D1][n].content)]_vars

\* C3: a successful Snapshot.delete of s removes s's row and its copy on disk,
\* a load by name then finds nothing, and the other rows and copies stay
C3_DeleteRemoves ==
    [][(last'.op = "delete" /\ last'.res = "ok") =>
       \A n \in Names :
          Delete(V1, n, "none") =>
              /\ ~Registered(DBnext, P1, n)
              /\ n \notin snapshot_names(DBnext, P1)
              /\ disk'[D1][n] = NoSnap
              /\ load_snapshot(DBnext, P1, n) = NULL
              /\ RowsOf(DBnext, P1) = { r \in RowsOf(DB, P1) : r.name # n }
              /\ \A m \in Names \ {n} : disk'[D1][m] = disk[D1][m]]_vars

\* a snapshot was just deleted and another one is still there
C3_Witness ==
    /\ last.op = "delete" /\ last.res = "ok"
    /\ \E n, m \in Names :
          /\ ~Registered(DB, P1, n) /\ disk[D1][n] = NoSnap
          /\ Registered(DB, P1, m) /\ disk[D1][m] # NoSnap

PhysicalErrors == {"BtrfsUtilError", "OSError"}

\* C4: when a physical primitive of create, delete or rename raises, the three
\* tables are what they were before the call
C4_PhysicalFailureKeepsIndex ==
    [][(last'.op \in {"create", "delete", "rename"} /\ last'.res \in PhysicalErrors)
          => UNCHANGED index]_vars

\* a delete whose delete_subvolume raised, the snapshot still registered
C4_Witness ==
    /\ last.op = "delete" /\ last.res \in PhysicalErrors
    /\ last.steps = <<"set_rw", "delete_subvolume">>
    /\ RowsOf(DB, P1) # {}

\* C5 (as claimed): between calls, every snapshot row has a read-only copy at
\* storage_dir/name
C5_RegisteredIsReadOnlyOnDisk ==
    \A r \in RowsOf(DB, P1) : disk[D1][r.name] # NoSnap /\ disk[D1][r.name].ro

\* C6 (as claimed): a create, delete or rename that fails leaves the index, the
\* snapshot directories, their flags and the storage directory as they were
C6_FailureChangesNothing ==
    [][(last'.op \in {"create", "delete", "rename"} /\ last'.res # "ok")
          => UNCHANGED <<index, dirs, disk>>]_vars

\* C7: a rename to a name another registered snapshot of the volume has ends
\* with SnapshotExists, calls no primitive, and changes neither index nor disk
C7_RenameToExistingName ==
    [][last'.op = "rename" =>
       \A n \in Names, new \in Names, f \in {"none", "set_rw", "move", "set_ro"} :
          (Registered(DB, P1, n) /\ Registered(DB, P1, new) /\ Rename(V1, n, new, f))
              => /\ last'.res = "SnapshotExists"
                 /\ last'.steps = <<>>
                 /\ UNCHANGED <<index, fs>>]_vars

\* a rename was just refused while two snapshots are registered
C7_Witness ==
    /\ last.op = "rename" /\ last.res = "SnapshotExists"
    /\ { r.name : r \in RowsOf(DB, P1) } = Names
    /\ \A n \in Names : disk[D1][n] # NoSnap /\ disk[D1][n].ro

\* the tree: the volume paths whose escaped name is a directory of the storage
\* root, and the snapshot directories of one of them
TreeVolumes == { p \in Paths : escape(p) \in dirs }
TreeSnapshots(p) == { n \in Names : disk[escape(p)][n] # NoSnap }

\* C8 (as claimed): after rebuild the volumes are exactly the paths whose
\* escaped name is a directory under the storage root, and each one's snapshots
\* are exactly its subdirectories
C8_RebuildMirrorsTree ==
    last.op = "rebuild" =>
        /\ { w.path : w \in volumes } = TreeVolumes
        /\ \A p \in TreeVolumes : snapshot_names(DB, p) = TreeSnapshots(p)

IndexAgreesWithTree ==
    /\ { w.path : w \in volumes } = TreeVolumes
    /\ \A p \in TreeVolumes : { r.name : r \in RowsOf(DB, p) } = TreeSnapshots(p)

\* what rebuild is claimed to keep: per volume the names with their
\* annotations, and the name of the head
Kept(db) ==
    [p \in Paths |->
        [rows |-> { <<r.name, r.annotation>> : r \in RowsOf(db, p) },
         head |-> { r.name : r \in { x \in RowsOf(db, p) : x.id \in head_ids(db, p) } }]]

\* C9 (as claimed): when index and tree agree, rebuild gives back the same
\* volumes, snapshots, annotations and heads
C9_RebuildReconstructs ==
    [][(last'.op = "rebuild" /\ IndexAgreesWithTree) =>
          /\ { w.path : w \in volumes' } = { w.path : w \in volumes }
          /\ Kept(DBnext) = Kept(DB)]_vars

\* C10 (as claimed): unescape(escape(p)) = p for every string p
C10_RoundTrip == codec.pc = "done" => codec.u = codec.p

\* a relative path as Volume.__init__ keeps it: not empty, no separator at
\* either end
Relative(p) == p # <<>> /\ Strip(p) = p

\* C11: two distinct relative paths never have the same escaped name, so two
\* distinct volume paths never share a storage directory
C11_EscapeInjective ==
    codec.pc = "escaped" =>
        \A q \in Strings :
            /\ (Relative(codec.p) /\ Relative(q) /\ q # codec.p) => escape(q) # codec.e
            /\ (codec.p # <<>> /\ q # <<>>
                  /\ Head(codec.p) # "/" /\ Head(q) # "/"
                  /\ VolumePath(q) # VolumePath(codec.p))
                   => VolumeName(q) # VolumeName(codec.p)

\* an escaped relative path that held a percent sign next to a t
C11_Witness ==
    /\ codec.pc = "escaped" /\ Relative(codec.p)
    /\ codec.p = <<"%", "t">> /\ codec.e = <<"%", "%", "t">>

\* C12: the escaped name of any string holds no separator
C12_EscapeHasNoSeparator ==
    codec.pc \in {"escaped", "done"} => \A i \in 1..Len(codec.e) : codec.e[i] # "/"

\* an escaped path that had a separator inside
C12_Witness ==
    /\ codec.pc = "escaped" /\ Len(codec.p) = 3 /\ codec.p[2] = "/"
    /\ Relative(codec.p) /\ codec.e[2] = "@"

\* C13: register(volume) on a path that has a row changes no table and leaves
\* the object with the row's id; a load of a fresh object after any register
\* reads the id register left; no two volume rows share a path
C13_RegisterVolumeIdempotent ==
    [][last'.op = "register_volume" =>
       \A v \in Vols, loaded \in BOOLEAN :
          RegisterVolume(v, loaded) =>
              LET p == VolumePath(v)
                  old == load_volume(DB, p)
                  held == HeldId(p, loaded)
              IN  /\ old # NULL =>
                        (UNCHANGED index /\ registered_id(DB, p, held) = old)
                  /\ load_volume(DBnext, p) = registered_id(DB, p, held)
                  /\ \A a, b \in volumes' : a.path = b.path => a = b]_vars

\* register(volume) was just called while every volume already had snapshots,
\* so on a path that had its row
C13_Witness ==
    /\ last.op = "register_volume"
    /\ \A v \in Vols : RowsOf(DB, VolumePath(v)) # {}
    /\ Cardinality(volumes) = Cardinality(Vols)

\* C14 (as claimed): register(snapshot) for a volume without a row leaves both
\* the volume row and the snapshot row, the second referring to the first
C14_RegisterSnapshotAddsVolume ==
    [][last'.op = "register_snapshot" =>
       \A v \in Vols, n \in Names, loaded \in BOOLEAN :
          (load_volume(DB, VolumePath(v)) = NULL /\ RegisterSnapshot(v, n, NoAnn, loaded))
              => /\ load_volume(DBnext, VolumePath(v)) # NULL
                 /\ Registered(DBnext, VolumePath(v), n)]_vars

\* C15 (as claimed): unregister(volume) on any Volume object of a path that
\* has a row leaves no volume row, no snapshot row and no head row of it
C15_UnregisterVolumeRemovesAll ==
    [][last'.op = "unregister_volume" =>
       \A v \in Vols, loaded \in BOOLEAN :
          (load_volume(DB, VolumePath(v)) # NULL /\ UnregisterVolume(v, loaded))
              => LET vid == load_volume(DB, VolumePath(v))
                 IN  /\ load_volume(DBnext, VolumePath(v)) = NULL
                     /\ \A r \in snapshots' : r.volume_id # vid
                     /\ \A h \in volumes_head' : h.volume_id # vid]_vars

\* the same for a Volume object that was loaded before the call
UnregisterLoadedVolumeRemovesAll ==
    [][last'.op = "unregister_volume" =>
       \A v \in Vols :
          (load_volume(DB, VolumePath(v)) # NULL /\ UnregisterVolume(v, TRUE))
              => LET vid == load_volume(DB, VolumePath(v))
                 IN  /\ load_volume(DBnext, VolumePath(v)) = NULL
                     /\ \A r \in snapshots' : r.volume_id # vid
                     /\ \A h \in volumes_head' : h.volume_id # vid]_vars

\* C16: a successful delete of the snapshot that is the volume's head leaves the
\* volume's head row in place with a null head, the volume row as it was, and
\* every other snapshot row of the volume
C16_DeleteHeadClearsHead ==
    [][(last'.op = "delete" /\ last'.res = "ok") =>
       \A n \in Names :
          (is_head(DB, P1, n) /\ Delete(V1, n, "none")) =>
              /\ HeadRows(DBnext, P1)
                    = { [h EXCEPT !.head_snapshot_id = NULL] : h \in HeadRows(DB, P1) }
              /\ Cardinality(HeadRows(DBnext, P1)) = 1
              /\ head_ids(DBnext, P1) = {}
              /\ volumes' = volumes
              /\ RowsOf(DBnext, P1) = { r \in RowsOf(DB, P1) : r.name # n }]_vars

\* after a delete the head row is there with a null head, next to the volume
\* row and a remaining snapshot
C16_Witness ==
    /\ last.op = "delete" /\ last.res = "ok"
    /\ \E h \in HeadRows(DB, P1) : h.head_snapshot_id = NULL
    /\ load_volume(DB, P1) # NULL
    /\ RowsOf(DB, P1) # {}

\* C17 (as claimed): a switch on a volume with no snapshot, registered or on
\* disk, ends with NoSnapshotsError and changes nothing
C17_SwitchWithoutSnapshots ==
    [][last'.op = "switch" =>
       \A n \in Names, f \in {"none", "delete_subvolume", "create_snapshot"} :
          (RowsOf(DB, P1) = {} /\ (\A m \in Names : disk[D1][m] = NoSnap)
             /\ Switch(V1, n, f))
              => /\ last'.res = "NoSnapshotsError"
                 /\ UNCHANGED <<index, fs>>]_vars

\* C18: a switch while the live path is a plain directory calls no primitive
\* and changes neither the live path nor the snapshots nor the index; when the
\* target is a registered snapshot of the volume and the storage directory is
\* there (the checks switch makes first), it ends with NotASubvolume
C18_SwitchOnPlainDirectory ==
    [][last'.op = "switch" =>
       \A n \in Names, f \in {"none", "delete_subvolume", "create_snapshot"} :
          (live[V1] = PlainDir /\ Switch(V1, n, f)) =>
              /\ last'.steps = <<>>
              /\ UNCHANGED <<index, fs>>
              /\ (D1 \in dirs /\ Registered(DB, P1, n)) => last'.res = "NotASubvolume"]_vars

\* a switch to a registered snapshot was just refused at a plain directory
C18_Witness ==
    /\ last.op = "switch" /\ last.res = "NotASubvolume"
    /\ live[V1] = PlainDir
    /\ D1 \in dirs /\ RowsOf(DB, P1) # {}
    /\ \E n \in Names : disk[D1][n] # NoSnap

\* C19 (as claimed): Snapshot.create for a name whose path in the storage
\* directory exists ends with SnapshotExists, calls no primitive and changes
\* nothing
C19_CreateOnExistingPath ==
    [][last'.op = "create" =>
       \A n \in Names, ann \in Annotations :
          (D1 \in dirs /\ disk[D1][n] # NoSnap /\ Create(V1, n, ann, "none"))
              => /\ last'.res = "SnapshotExists"
                 /\ last'.steps = <<>>
                 /\ UNCHANGED <<index, fs>>]_vars

Min(a, b) == IF a <= b THEN a ELSE b

\* C20 (as claimed, without the order by time): delete --keep N leaves N of the
\* volume's snapshots (all of them when there are fewer), each with its copy,
\* and removes the others' copies; with N = 0 the storage directory is removed
\* and no row of the volume is left
C20_DeleteKeep ==
    [][last'.op = "delete_keep" =>
       \A keep \in Keeps :
          (RowsOf(DB, P1) # {} /\ D1 \in dirs /\ DeleteKeep(V1, keep)) =>
              /\ RowsOf(DBnext, P1) \subseteq RowsOf(DB, P1)
              /\ Cardinality(RowsOf(DBnext, P1))
                    = Min(keep, Cardinality(RowsOf(DB, P1)))
              /\ \A r \in RowsOf(DB, P1) \ RowsOf(DBnext, P1) :
                    disk'[D1][r.name] = NoSnap
              /\ keep = 0 =>
                    /\ D1 \notin dirs'
                    /\ load_volume(DBnext, P1) = NULL
                    /\ HeadRows(DBnext, P1) = {}]_vars

Finished(p) == race[p].pc \in {"done", "SnapshotExists", "BtrfsUtilError"}
\* the create_snapshot of p has succeeded
Snapshotted(p) ==
    race[p].pc \in {"register_volume", "register_snapshot", "set_head", "done"}
SameName == race["p1"].name = race["p2"].name

\* C21: of two create commands racing for one name at most one gets its
\* create_snapshot through, and once both have ended the index holds exactly
\* one row of that name for the volume, and its copy is on disk
C21_RaceForOneName ==
    (SameName /\ \A p \in Procs : ~At(p, "idle")) =>
        /\ Cardinality({ p \in Procs : Snapshotted(p) }) <= 1
        /\ (\A p \in Procs : Finished(p)) =>
               /\ Cardinality({ r \in RowsOf(DB, P1) : r.name = race["p1"].name }) = 1
               /\ Cardinality(snapshots) = 1
               /\ disk[D1][race["p1"].name] # NoSnap

\* both commands passed the check, one made the snapshot and registered it,
\* the other was refused by create_snapshot
C21_Witness ==
    /\ SameName
    /\ \E p, q \in Procs : At(p, "done") /\ At(q, "BtrfsUtilError")
    /\ Cardinality(snapshots) = 1

\* C29: two create commands with different names on a volume without a row:
\* however their steps interleave, once both have ended there is one volume row
\* for the path with one head row, both snapshots are rows of that volume, and
\* the head is one of the two
C29_RaceOnNewVolume ==
    (~SameName /\ \A p \in Procs : Finished(p)) =>
        /\ \A p \in Procs : At(p, "done")
        /\ Cardinality({ w \in volumes : w.path = P1 }) = 1
        /\ Cardinality(volumes) = 1
        /\ Cardinality(volumes_head) = 1
        /\ Cardinality(HeadRows(DB, P1)) = 1
        /\ \A p \in Procs : Registered(DB, P1, race[p].name)
        /\ Cardinality(RowsOf(DB, P1)) = 2
        /\ \E p \in Procs : is_head(DB, P1, race[p].name)
        /\ \A h \in volumes_head : h.head_snapshot_id \in { r.id : r \in RowsOf(DB, P1) }

\* both commands have ended, each with its own snapshot registered
C29_Witness ==
    /\ ~SameName
    /\ \A p \in Procs : At(p, "done") /\ Registered(DB, P1, race[p].name)
    /\ is_head(DB, P1, race["p1"].name)

\* C22 (as claimed): setting the annotation of any Snapshot object of a
\* registered snapshot leaves the row with that annotation, its id and name as
\* they were, every other row and table as it was, and touches nothing on disk
C22_AnnotationIsStored ==
    [][last'.op = "set_annotation" =>
       \A v \in Vols, n \in Names, ann \in Annotations, loaded \in BOOLEAN :
          (Registered(DB, VolumePath(v), n) /\ SetAnnotation(v, n, ann, loaded)) =>
              LET sid == load_snapshot(DB, VolumePath(v), n)
              IN  /\ last'.res = "ok" /\ last'.steps = <<>>
                  /\ load_snapshot(DBnext, VolumePath(v), n) = sid
                  /\ \A r \in snapshots' : r.id = sid => r.annotation = ann
                  /\ { r \in snapshots' : r.id # sid } = { r \in snapshots : r.id # sid }
                  /\ UNCHANGED <<volumes, volumes_head, fs>>]_vars

\* C23 (as claimed): a create command given no snapshot name never ends with
\* SnapshotExists, whatever name was generated and whatever snapshots exist
C23_GeneratedNameIsFree ==
    [][last'.op = "create_unnamed" => last'.res # "SnapshotExists"]_vars

BothSteps == <<"delete_subvolume", "create_snapshot">>

\* C24: a switch that finds a live subvolume (storage directory present, target
\* registered) deletes it, then materializes the target, then sets the head;
\* a failed step ends the call with nothing undone: the index changes only when
\* both primitives succeeded, a failed delete leaves the live path as it was,
\* and a failed materialization leaves it absent with the head as before
C24_SwitchStepsInOrder ==
    [][last'.op = "switch" =>
       \A n \in Names, f \in {"none", "delete_subvolume", "create_snapshot"} :
          (live[V1].kind = "subvol" /\ D1 \in dirs /\ Registered(DB, P1, n)
             /\ Switch(V1, n, f)) =>
              /\ last'.steps \in {<<"delete_subvolume">>, BothSteps}
              /\ UNCHANGED <<dirs, disk>>
              /\ last'.res = "ok" =>
                    /\ last'.steps = BothSteps
                    /\ live'[V1] = Subvol(disk[D1][n].content)
                    /\ is_head(DBnext, P1, n)
              /\ last'.res # "ok" =>
                    /\ UNCHANGED index
                    /\ last'.steps = <<"delete_subvolume">> => UNCHANGED live
                    /\ last'.steps = BothSteps => live'[V1] = Absent]_vars

\* a switch whose materialization failed: the live path is gone and a snapshot
\* is still the head
C24_Witness ==
    /\ last.op = "switch" /\ last.res = "BtrfsUtilError" /\ last.steps = BothSteps
    /\ live[V1] = Absent
    /\ head_ids(DB, P1) # {}

\* C25: removeStorage while a snapshot lies in the storage directory fails at
\* the rmdir and leaves the volume row, the snapshot rows, the head row and the
\* disk as they were
C25_RemoveStorageNotEmpty ==
    [][(last'.op = "removeStorage" /\ (\E n \in Names : disk[D1][n] # NoSnap)
          /\ RemoveStorage(V1))
          => /\ last'.res = "OSError"
             /\ UNCHANGED <<index, fs>>]_vars

\* a removeStorage was just refused, the volume and a snapshot still registered
C25_Witness ==
    /\ last.op = "removeStorage" /\ last.res = "OSError"
    /\ load_volume(DB, P1) # NULL /\ RowsOf(DB, P1) # {}
    /\ HeadRows(DB, P1) # {}
    /\ \E n \in Names : disk[D1][n] # NoSnap

\* C26: every head row's pointer is null or the id of a snapshot row of the
\* same volume
C26_HeadIsOwnSnapshot ==
    \A h \in volumes_head :
        \/ h.head_snapshot_id = NULL
        \/ \E r \in snapshots : r.id = h.head_snapshot_id /\ r.volume_id = h.volume_id

\* two volumes, each with its own snapshot as head, and one volume with a
\* second snapshot that is not the head
C26_Witness ==
    /\ \A v \in Vols : head_ids(DB, VolumePath(v)) # {}
    /\ Cardinality(snapshots) = 3
    /\ \A h \in volumes_head : h.head_snapshot_id # NULL

\* C27: every volume row has exactly one head row, and after a successful
\* create (whose set_head only updates a row) some head is set
C27_OneHeadRowPerVolume ==
    /\ \A w \in volumes : Cardinality({ h \in volumes_head : h.volume_id = w.id }) = 1
    /\ (last.op = "create" /\ last.res = "ok") =>
           \E h \in volumes_head : h.head_snapshot_id # NULL

\* both volumes hold rows 2 and 3: the volume that had row 1 was unregistered
\* and registered again by the create that just ended
C27_Witness ==
    /\ last.op = "create" /\ last.res = "ok"
    /\ { w.path : w \in volumes } = Vols
    /\ { w.id : w \in volumes } = {2, 3}
    /\ \A v \in Vols : head_ids(DB, VolumePath(v)) # {}

TypeOK ==
    /\ live \in [Vols -> LiveStates]
    /\ dirs \subseteq DirNames
    /\ disk \in [DirNames -> [Names -> OnDisk]]
    /\ volumes \subseteq [id : 1..MaxId, path : Paths]
    /\ snapshots \subseteq
          [id : 1..MaxId, volume_id : 1..MaxId, name : Names, annotation : Annotations]
    /\ volumes_head \subseteq [volume_id : 1..MaxId, head_snapshot_id : 0..MaxId]

====
